---- MODULE Spec2Model ----
(***************************************************************************)
(* mt_lintocirc: conversion of alignment records mapped against a doubled  *)
(* circular reference back to a single linear copy of that reference.      *)
(*                                                                         *)
(* The module models src/src/lib.rs (convert_sam, convert_read) and the    *)
(* argument handling of src/src/main.rs.  Option<T> values are modelled as *)
(* sequences of length 0 (None) or 1 (Some): alignment_start, the -l       *)
(* command-line option.  A record name is a sequence of tokens, so that    *)
(* appending the "_right" suffix is Append; the empty sequence is the      *)
(* missing name.  Bytes of the read sequence and of the quality scores are *)
(* opaque to the program and are modelled by position-tagged tokens, so    *)
(* any loss, duplication or reordering of a byte is visible.               *)
(***************************************************************************)
EXTENDS Integers, Sequences, FiniteSets, TLC

VARIABLES
    pc,                   \* control point of the running entry point
    entry,                \* "test" | "lib" | "main": which entry point runs
    args,                 \* main: the parsed command line ([reflen |-> Option])
    target_reflen,        \* main: the value read back from -l/--reflen (Option)
    reflen,               \* convert_sam / convert_read parameter
    refname,              \* convert_sam parameter
    target_refname,       \* convert_sam parameter
    header0,              \* reference dictionary as read by read_header
    reference_sequences,  \* header.reference_sequences_mut()
    input,                \* records consumed from reader.records so far
    record,               \* Option: the record handed to convert_read last
    read_type,            \* Option: what convert_read returned for it
    out                   \* everything handed to the writer, in order

vars == <<pc, entry, args, target_reflen, reflen, refname, target_refname,
          header0, reference_sequences, input, record, read_type, out>>

(***************************************************************************)
(* Bounds of the explored inputs.                                          *)
(***************************************************************************)
MaxOps == 3
MaxOpLen == 2
MaxRefLen == 4
MaxRecords == 2

(***************************************************************************)
(* Program constants.                                                      *)
(***************************************************************************)
REF_LEN == 1000
DEFAULT_REFLEN == 16569
HARDCODED_REFLEN == 16159
U16_MAX == 65535

None == <<>>
Some(x) == <<x>>
IsSome(o) == Len(o) = 1
Unwrap(o) == o[1]

(***************************************************************************)
(* noodles Position: a 1-based coordinate.  Position::new(0) is None.      *)
(***************************************************************************)
PositionNew(n) == IF n = 0 THEN None ELSE Some(n)
PositionMIN == 1

(***************************************************************************)
(* CIGAR operation kinds and what they consume.                            *)
(***************************************************************************)
Kind == {"Match", "Insertion", "Deletion", "Skip", "SoftClip", "HardClip",
         "Pad", "SequenceMatch", "SequenceMismatch"}

consumes_read(kind) ==
    kind \in {"Match", "Insertion", "SoftClip", "SequenceMatch", "SequenceMismatch"}

consumes_reference(kind) ==
    kind \in {"Match", "Deletion", "Skip", "SequenceMatch", "SequenceMismatch"}

Op(kind, len) == [kind |-> kind, len |-> len]

RECURSIVE SumLen(_, _)
\* Sum of the lengths of the operations of cigar whose kind satisfies the
\* predicate named by which ("read" or "reference").
SumLen(cigar, which) ==
    IF Len(cigar) = 0 THEN 0
    ELSE LET op == Head(cigar)
             counts == IF which = "read" THEN consumes_read(op.kind)
                       ELSE consumes_reference(op.kind)
         IN (IF counts THEN op.len ELSE 0) + SumLen(Tail(cigar), which)

ReadLen(cigar) == SumLen(cigar, "read")
RefLen(cigar) == SumLen(cigar, "reference")


(***************************************************************************)
(* The records of the crate's unit tests (tests::test_split_read and       *)
(* tests::test_nosplit_read).                                              *)
(***************************************************************************)
test_cigar ==
    << Op("SoftClip", 20), Op("Match", 30), Op("Deletion", 5),
       Op("Skip", 5), Op("Match", 90), Op("SoftClip", 10) >>

test_sequence ==
    <<
       "A", "C", "G", "T", "A", "C", "G", "T", "A", "C", "G", "T", "A", "C", "G",
       "T", "A", "C", "G", "T", "A", "C", "G", "T", "A", "C", "G", "T", "A", "C",
       "G", "T", "A", "C", "G", "T", "A", "C", "G", "T", "A", "C", "G", "T", "A",
       "C", "G", "T", "A", "C", "G", "T", "A", "C", "G", "T", "A", "C", "G", "T",
       "A", "C", "G", "T", "A", "C", "G", "T", "A", "C", "G", "T", "A", "C", "G",
       "T", "A", "C", "G", "T", "A", "C", "G", "T", "A", "C", "G", "T", "A", "C",
       "G", "T", "A", "C", "G", "T", "A", "C", "G", "T", "N", "A", "C", "G", "T",
       "A", "C", "G", "T", "A", "C", "G", "T", "A", "C", "G", "T", "A", "C", "G",
       "T", "A", "C", "G", "T", "A", "C", "G", "T", "A", "C", "G", "T", "A", "C",
       "G", "T", "A", "C", "G", "T", "A", "C", "G", "T", "A", "C", "G", "T", "A"
    >>

test_quality_scores ==
    <<
       "0", "1", "2", "3", "4", "5", "6", "7", "8", "9", ":", ";", "<", "=", ">",
       "?", "@", "A", "B", "C", "D", "E", "F", "G", "H", "I", "0", "1", "2", "3",
       "4", "5", "6", "7", "8", "9", ":", ";", "<", "=", ">", "?", "@", "A", "B",
       "C", "D", "E", "F", "G", "H", "I", "0", "1", "2", "3", "4", "5", "6", "7",
       "8", "9", ":", ";", "<", "=", ">", "?", "@", "A", "B", "C", "D", "E", "F",
       "G", "H", "I", "0", "1", "2", "3", "4", "5", "6", "7", "8", "9", ":", ";",
       "<", "=", ">", "?", "@", "A", "B", "C", "D", "E", "!", "F", "G", "H", "I",
       "0", "1", "2", "3", "4", "5", "6", "7", "8", "9", ":", ";", "<", "=", ">",
       "?", "@", "A", "B", "C", "D", "E", "F", "G", "H", "I", "0", "1", "2", "3",
       "4", "5", "6", "7", "8", "9", ":", ";", "<", "=", ">", "?", "@", "A", "B"
    >>

test_record(start) ==
    [ name |-> <<"Read1">>, alignment_start |-> PositionNew(start),
      cigar |-> test_cigar, sequence |-> test_sequence,
      quality_scores |-> test_quality_scores, secondary |-> FALSE ]

test_split_record == test_record(REF_LEN - 90)
test_nosplit_record == test_record(REF_LEN - 145)

(***************************************************************************)
(* Input records of the bounded exploration.                               *)
(***************************************************************************)
\* Kinds of the explored records: one that consumes reference and read, one
\* that consumes the read only, one that consumes the reference only.
InputKinds == {"Match", "Insertion", "Deletion"}
Ops == {Op(k, n) : k \in InputKinds, n \in 1..MaxOpLen}
Cigars == UNION {[1..n -> Ops] : n \in 0..MaxOps}
RefLens == {MaxRefLen}
Starts(rl) == {None} \cup {Some(p) : p \in 1..(rl + 1)}
Tokens(tag, n) == [i \in 1..n |-> <<tag, i>>]

\* A payload is stored in full or not at all ("*" in SAM), independently for
\* the sequence and for the quality scores.
PayloadLens(c) == {0, ReadLen(c)}

MkRecord(s, c, sl, ql, b) ==
    [ name |-> <<"Read1">>, alignment_start |-> s, cigar |-> c,
      sequence |-> Tokens("base", sl), quality_scores |-> Tokens("qual", ql),
      secondary |-> b ]

(***************************************************************************)
(* enum SplitType, with the panic of an assertion or unwrap as a fourth    *)
(* outcome.  reads holds the records the value carries.                    *)
(***************************************************************************)
Unchanged == [type |-> "Unchanged", reads |-> <<>>]
Modified(read) == [type |-> "Modified", reads |-> <<read>>]
Split(left_read, right_read) == [type |-> "Split", reads |-> <<left_read, right_read>>]
Panic == [type |-> "Panic", reads |-> <<>>]

(***************************************************************************)
(* convert_read, the scan of the CIGAR (the first while loop).             *)
(***************************************************************************)
\* Length kept on the left of an operation that runs over reflen.
curr_oper_len(rl, left_ref_len) == rl - left_ref_len

\* Whether the operation starting at left_ref_len is the one to split.
goes_beyond(rl, left_ref_len, oper) == left_ref_len + oper.len > rl

\* Variant: the read advanced by the whole operation.
advance_truncated_whole(sequence_idx, oper, len) ==
    IF consumes_read(oper.kind) THEN sequence_idx + oper.len ELSE sequence_idx

\* sequence_idx after the truncated operation.
advance_truncated(sequence_idx, oper, len) ==
    IF consumes_read(oper.kind) THEN sequence_idx + len ELSE sequence_idx

RECURSIVE scan_cigar(_, _, _, _, _, _)
\* The state of the loop before opiter.next() yields cigar_vec[i]; the
\* result holds what the loop leaves behind: left_cigar, sequence_idx,
\* remaining_len, curr_oper_kind, and the position of opiter.
scan_cigar(cigar_vec, i, left_ref_len, sequence_idx, left_cigar, rl) ==
    IF i > Len(cigar_vec)
    THEN [ left_cigar |-> left_cigar, sequence_idx |-> sequence_idx,
           remaining_len |-> 0, curr_oper_kind |-> "Skip", opiter |-> i ]
    ELSE LET oper == cigar_vec[i] IN
         IF consumes_reference(oper.kind) /\ goes_beyond(rl, left_ref_len, oper)
         THEN LET len == curr_oper_len(rl, left_ref_len) IN
              [ left_cigar |-> Append(left_cigar, Op(oper.kind, len)),
                sequence_idx |-> advance_truncated(sequence_idx, oper, len),
                remaining_len |-> oper.len - len,
                curr_oper_kind |-> oper.kind,
                opiter |-> i + 1 ]
         ELSE scan_cigar(cigar_vec, i + 1,
                  IF consumes_reference(oper.kind)
                      THEN left_ref_len + oper.len ELSE left_ref_len,
                  IF consumes_read(oper.kind)
                      THEN sequence_idx + oper.len ELSE sequence_idx,
                  Append(left_cigar, oper), rl)

(***************************************************************************)
(* convert_read, the payload: Vec::split_off(at) panics when at > len.     *)
(***************************************************************************)
split_off_panics(v, at) == at > Len(v)
split_off_left(v, at) == SubSeq(v, 1, at)
split_off_right(v, at) == SubSeq(v, at + 1, Len(v))

\* The two assertions guarding a record without sequence.
empty_sequence_asserts(rec) ==
    /\ Len(rec.quality_scores) = 0
    /\ rec.secondary

payload_panics(rec, sequence_idx) ==
    IF Len(rec.sequence) = 0
    THEN ~empty_sequence_asserts(rec)
    ELSE \/ split_off_panics(rec.sequence, sequence_idx)
         \/ split_off_panics(rec.quality_scores, sequence_idx)

left_sequence(rec, sequence_idx) ==
    IF Len(rec.sequence) = 0 THEN <<>>
    ELSE split_off_left(rec.sequence, sequence_idx)

right_sequence(rec, sequence_idx) ==
    IF Len(rec.sequence) = 0 THEN <<>>
    ELSE split_off_right(rec.sequence, sequence_idx)

left_quality_scores(rec, sequence_idx) ==
    IF Len(rec.sequence) = 0 THEN <<>>
    ELSE split_off_left(rec.quality_scores, sequence_idx)

right_quality_scores(rec, sequence_idx) ==
    IF Len(rec.sequence) = 0 THEN <<>>
    ELSE split_off_right(rec.quality_scores, sequence_idx)

(***************************************************************************)
(* convert_read, the right CIGAR: the rest of the split operation, then    *)
(* whatever opiter has not yielded yet.                                    *)
(***************************************************************************)
\* Variant: the operation after the split one is dropped.
right_cigar_skips_one(cigar_vec, scan) ==
    (IF scan.remaining_len > 0
        THEN <<Op(scan.curr_oper_kind, scan.remaining_len)>> ELSE <<>>)
    \o SubSeq(cigar_vec, scan.opiter + 1, Len(cigar_vec))

right_cigar(cigar_vec, scan) ==
    (IF scan.remaining_len > 0
        THEN <<Op(scan.curr_oper_kind, scan.remaining_len)>> ELSE <<>>)
    \o SubSeq(cigar_vec, scan.opiter, Len(cigar_vec))

left_read(rec, record_start, scan) ==
    [rec EXCEPT !.alignment_start = Some(record_start),
                !.cigar = scan.left_cigar,
                !.quality_scores = left_quality_scores(rec, scan.sequence_idx),
                !.sequence = left_sequence(rec, scan.sequence_idx)]

\* Variant: the right record keeps the start of the input record.
right_read_keeps_start(rec, scan) ==
    [rec EXCEPT !.cigar = right_cigar(rec.cigar, scan),
                !.quality_scores = right_quality_scores(rec, scan.sequence_idx),
                !.sequence = right_sequence(rec, scan.sequence_idx),
                !.name = Append(rec.name, "_right")]

right_read(rec, scan) ==
    [rec EXCEPT !.alignment_start = Some(PositionMIN),
                !.cigar = right_cigar(rec.cigar, scan),
                !.quality_scores = right_quality_scores(rec, scan.sequence_idx),
                !.sequence = right_sequence(rec, scan.sequence_idx),
                !.name = Append(rec.name, "_right")]

\* A start at or beyond reflen: the record is shifted back by reflen.
shifted_read(rec, record_start, rl) ==
    [rec EXCEPT !.alignment_start = PositionNew(record_start - rl)]

convert_read(rec, rl) ==
    IF Len(rec.name) = 0 THEN Panic
    ELSE IF ~IsSome(rec.alignment_start) THEN Unchanged
    ELSE LET record_start == Unwrap(rec.alignment_start) IN
         IF record_start >= rl THEN Modified(shifted_read(rec, record_start, rl))
         ELSE LET scan == scan_cigar(rec.cigar, 1, record_start, 0, <<>>, rl) IN
              IF payload_panics(rec, scan.sequence_idx) THEN Panic
              ELSE IF Len(right_cigar(rec.cigar, scan)) = 0 THEN Unchanged
              ELSE Split(left_read(rec, record_start, scan), right_read(rec, scan))

\* Variant: the two halves of a split written right before left.
write_alignment_records_swapped(rec, outcome) ==
    CASE outcome.type = "Unchanged" -> <<rec>>
      [] outcome.type = "Modified" -> <<outcome.reads[1]>>
      [] outcome.type = "Split" -> <<outcome.reads[2], outcome.reads[1]>>
      [] OTHER -> <<>>

\* convert_sam, the match on read_type: the records written for one input
\* record, in writing order.
write_alignment_records(rec, outcome) ==
    CASE outcome.type = "Unchanged" -> <<rec>>
      [] outcome.type = "Modified" -> <<outcome.reads[1]>>
      [] outcome.type = "Split" -> <<outcome.reads[1], outcome.reads[2]>>
      [] OTHER -> <<>>

(***************************************************************************)
(* SpecRead: convert_read called on one record, as the unit tests call it. *)
(***************************************************************************)
InitRead ==
    /\ pc = "call"
    /\ entry = "test"
    /\ args = None /\ target_reflen = None
    /\ refname = "" /\ target_refname = ""
    /\ header0 = <<>> /\ reference_sequences = <<>>
    /\ input = <<>> /\ out = <<>>
    /\ read_type = None
    /\ \/ /\ reflen \in RefLens
          /\ \E c \in Cigars, s \in Starts(reflen), b \in BOOLEAN :
               \E sl \in PayloadLens(c), ql \in PayloadLens(c) :
                   record = Some(MkRecord(s, c, sl, ql, b))
       \/ /\ reflen = REF_LEN
          /\ record \in {Some(test_split_record), Some(test_nosplit_record)}

CallConvertRead ==
    /\ pc = "call"
    /\ entry = "test"
    /\ read_type' = Some(convert_read(Unwrap(record), reflen))
    /\ pc' = "returned"
    /\ UNCHANGED <<entry, args, target_reflen, reflen, refname, target_refname,
                   header0, reference_sequences, input, record, out>>

NextRead == CallConvertRead

SpecRead == InitRead /\ [][NextRead]_vars

(***************************************************************************)
(* The reference dictionary: an IndexMap from name to length, modelled as  *)
(* the sequence of its entries in map order.                               *)
(***************************************************************************)
RefNames == {"chrM", "chrM_2x", "chr1"}

InitialLength(name) ==
    CASE name = "chrM" -> 16569
      [] name = "chrM_2x" -> 33138
      [] OTHER -> 248956422

contains_key(map, key) == \E i \in 1..Len(map) : map[i].name = key
get_index_of(map, key) == CHOOSE i \in 1..Len(map) : map[i].name = key
get(map, key) == map[get_index_of(map, key)].length

\* IndexMap::insert: an existing key keeps its place and takes the new value
\* (the old one is returned); a new key goes to the end (None is returned).
insert(map, key, value) ==
    IF contains_key(map, key)
    THEN [map EXCEPT ![get_index_of(map, key)].length = value]
    ELSE Append(map, [name |-> key, length |-> value])

insert_is_none(map, key) == ~contains_key(map, key)

\* IndexMap::swap_remove: the last entry takes the place of the removed one.
swap_remove(map, key) ==
    IF ~contains_key(map, key) THEN map
    ELSE LET i == get_index_of(map, key)
             n == Len(map)
         IN [j \in 1..(n - 1) |-> IF j = i THEN map[n] ELSE map[j]]

\* convert_sam, the header: whether the old entry is removed.
removes_refname(map, target) == insert_is_none(map, target)

rewrite_reference_sequences(map, ref, target, rl) ==
    IF removes_refname(map, target)
    THEN swap_remove(insert(map, target, rl), ref)
    ELSE insert(map, target, rl)

Dictionaries ==
    {m \in UNION {[1..n -> RefNames] : n \in 0..Cardinality(RefNames)} :
        \A i, j \in 1..Len(m) : m[i] = m[j] => i = j}

Dictionary(m) == [i \in 1..Len(m) |-> [name |-> m[i], length |-> InitialLength(m[i])]]

(***************************************************************************)
(* What the writer receives, in order.                                     *)
(***************************************************************************)
HeaderEvent(refs) == [ev |-> "header", refs |-> refs, rec |-> None]
RecordEvent(rec) == [ev |-> "record", refs |-> <<>>, rec |-> Some(rec)]
FinishEvent == [ev |-> "finish", refs |-> <<>>, rec |-> None]

RecordEvents(recs) == [i \in 1..Len(recs) |-> RecordEvent(recs[i])]

(***************************************************************************)
(* Records the reader yields in the driver's exploration, around the       *)
(* boundary rl: unmapped, ending before rl, running over rl, starting      *)
(* beyond rl, and two records without payload running over rl.             *)
(***************************************************************************)
DriverCigar == <<Op("SoftClip", 1), Op("Match", 2)>>

DriverRecords(rl) ==
    {MkRecord(s, DriverCigar, ReadLen(DriverCigar), ReadLen(DriverCigar), FALSE) :
        s \in {None, Some(rl - 2), Some(rl - 1), Some(rl + 1)}}
    \cup {MkRecord(Some(rl - 1), DriverCigar, 0, 0, b) : b \in BOOLEAN}

(***************************************************************************)
(* main: the command line.  -l/--reflen is parsed as u16 with default      *)
(* "16569"; -t/--targetref defaults to "chrM"; -r/--ref is required.       *)
(***************************************************************************)
CliRefLens == {None, Some(1000), Some(70000)}
CliTargets == {None, Some("chrM_2x")}

\* clap's value of an option with a default_value.
get_one(option, default) == IF IsSome(option) THEN Unwrap(option) ELSE default

\* The second argument of the call of convert_sam in main: its reflen.
main_reflen(parsed_reflen) == HARDCODED_REFLEN

InitMain ==
    /\ pc = "main"
    /\ entry = "main"
    /\ \E l \in CliRefLens, r \in RefNames, t \in CliTargets :
           args = Some([reflen |-> l, ref |-> r, targetref |-> t])
    /\ target_reflen = None
    /\ reflen = 0 /\ refname = "" /\ target_refname = ""
    /\ \E m \in Dictionaries : header0 = Dictionary(m)
    /\ reference_sequences = <<>>
    /\ input = <<>> /\ out = <<>> /\ record = None /\ read_type = None

InitLib ==
    /\ pc = "convert_sam"
    /\ entry = "lib"
    /\ args = None /\ target_reflen = None
    /\ reflen \in {0} \cup RefLens
    /\ refname \in RefNames /\ target_refname \in RefNames
    /\ \E m \in Dictionaries : header0 = Dictionary(m)
    /\ reference_sequences = <<>>
    /\ input = <<>> /\ out = <<>> /\ record = None /\ read_type = None

\* clap rejects a -l value that is no u16 and the process exits.
MainUsageError ==
    /\ pc = "main"
    /\ get_one(Unwrap(args).reflen, DEFAULT_REFLEN) > U16_MAX
    /\ pc' = "usage_error"
    /\ UNCHANGED <<entry, args, target_reflen, reflen, refname, target_refname,
                   header0, reference_sequences, input, record, read_type, out>>

\* The option is declared with value_parser!(u16) and read back with
\* get_one::<usize>: clap panics on a mismatch of definition and access.
MainDowncastPanic ==
    /\ pc = "main"
    /\ get_one(Unwrap(args).reflen, DEFAULT_REFLEN) <= U16_MAX
    /\ pc' = "panicked"
    /\ UNCHANGED <<entry, args, target_reflen, reflen, refname, target_refname,
                   header0, reference_sequences, input, record, read_type, out>>

\* The call of convert_sam as main writes it, were the value read back.
MainCallsConvertSam ==
    /\ pc = "main"
    /\ get_one(Unwrap(args).reflen, DEFAULT_REFLEN) <= U16_MAX
    /\ target_reflen' = Some(get_one(Unwrap(args).reflen, DEFAULT_REFLEN))
    /\ reflen' = main_reflen(get_one(Unwrap(args).reflen, DEFAULT_REFLEN))
    /\ refname' = Unwrap(args).ref
    /\ target_refname' = get_one(Unwrap(args).targetref, "chrM")
    /\ pc' = "convert_sam"
    /\ UNCHANGED <<entry, args, header0, reference_sequences, input, record,
                   read_type, out>>

(***************************************************************************)
(* convert_sam.                                                            *)
(***************************************************************************)
\* read_header, the rewrite of the dictionary, write_header.
\* NonZeroUsize::new(reflen).unwrap() panics for reflen = 0.
RewriteHeader ==
    /\ pc = "convert_sam"
    /\ IF reflen = 0
       THEN /\ pc' = "panicked"
            /\ UNCHANGED <<reference_sequences, out>>
       ELSE /\ reference_sequences' =
                  rewrite_reference_sequences(header0, refname, target_refname, reflen)
            /\ out' = Append(out, HeaderEvent(reference_sequences'))
            /\ pc' = "records"
    /\ UNCHANGED <<entry, args, target_reflen, reflen, refname, target_refname,
                   header0, input, record, read_type>>

\* One turn of the loop over reader.records: the record is converted and
\* what convert_read returns is written; a panic of convert_read ends the run.
NextRecord ==
    /\ pc = "records"
    /\ Len(input) < MaxRecords
    /\ \E rec \in DriverRecords(reflen) :
        LET outcome == convert_read(rec, reflen) IN
        /\ input' = Append(input, rec)
        /\ record' = Some(rec)
        /\ read_type' = Some(outcome)
        /\ out' = out \o RecordEvents(write_alignment_records(rec, outcome))
        /\ pc' = IF outcome.type = "Panic" THEN "panicked" ELSE "records"
    /\ UNCHANGED <<entry, args, target_reflen, reflen, refname, target_refname,
                   header0, reference_sequences>>

\* A turn of the loop in which a write fails (the ? operator returns the
\* error): the records written before the failing write stay written.
NextRecordWriteFails ==
    /\ pc = "records"
    /\ Len(input) < MaxRecords
    /\ \E rec \in DriverRecords(reflen) :
        LET outcome == convert_read(rec, reflen)
            writes == write_alignment_records(rec, outcome)
        IN \E k \in 0..(Len(writes) - 1) :
            /\ input' = Append(input, rec)
            /\ record' = Some(rec)
            /\ read_type' = Some(outcome)
            /\ out' = out \o RecordEvents(SubSeq(writes, 1, k))
            /\ pc' = "io_error"
    /\ UNCHANGED <<entry, args, target_reflen, reflen, refname, target_refname,
                   header0, reference_sequences>>

\* read_header, write_header, the next record or finish fails: convert_sam
\* returns the error.
StreamFails ==
    /\ pc \in {"convert_sam", "records"}
    /\ pc' = "io_error"
    /\ UNCHANGED <<entry, args, target_reflen, reflen, refname, target_refname,
                   header0, reference_sequences, input, record, read_type, out>>

\* The reader is exhausted: writer.finish.
Finish ==
    /\ pc = "records"
    /\ out' = Append(out, FinishEvent)
    /\ pc' = "done"
    /\ UNCHANGED <<entry, args, target_reflen, reflen, refname, target_refname,
                   header0, reference_sequences, input, record, read_type>>

InitDriver == InitMain \/ InitLib

NextDriver ==
    \/ MainUsageError
    \/ MainDowncastPanic
    \/ MainCallsConvertSam
    \/ RewriteHeader
    \/ NextRecord
    \/ NextRecordWriteFails
    \/ StreamFails
    \/ Finish

SpecDriver == InitDriver /\ [][NextDriver]_vars

Init == InitRead \/ InitDriver
Next == NextRead \/ NextDriver
Spec == Init /\ [][Next]_vars

(***************************************************************************)
(* Properties.                                                             *)
(***************************************************************************)
Returned == entry = "test" /\ pc = "returned"
TheRecord == Unwrap(record)
TheOutcome == Unwrap(read_type)
TheStart == Unwrap(TheRecord.alignment_start)
IsMapped == IsSome(TheRecord.alignment_start)
TheLeft == TheOutcome.reads[1]
TheRight == TheOutcome.reads[2]

\* The invariant of a record: the read-consuming lengths of the operations,
\* the sequence and the quality scores agree, or the record is secondary and
\* stores neither sequence nor quality scores.
RecordInvariant(r) ==
    \/ /\ ReadLen(r.cigar) = Len(r.sequence)
       /\ Len(r.sequence) = Len(r.quality_scores)
    \/ /\ Len(r.sequence) = 0
       /\ Len(r.quality_scores) = 0
       /\ r.secondary

\* C1 (as claimed): a Split of a mapped record with start S < reflen has a
\* left record that starts at S and whose reference-consuming lengths end it
\* at reflen (S + sum - 1 = reflen), and a right record that starts at 1.
C1_BoundaryConservation ==
    (Returned /\ IsMapped /\ TheStart < reflen /\ TheOutcome.type = "Split") =>
        /\ TheLeft.alignment_start = Some(TheStart)
        /\ TheStart + RefLen(TheLeft.cigar) - 1 = reflen
        /\ TheRight.alignment_start = Some(1)

\* C2: if the input record satisfies the record invariant, every record
\* emitted for it (the record itself for Unchanged, the shifted record, both
\* halves of a Split) satisfies the record invariant.
C2_LengthInvariant ==
    (Returned /\ RecordInvariant(TheRecord)) =>
        LET emitted == write_alignment_records(TheRecord, TheOutcome) IN
        \A i \in 1..Len(emitted) : RecordInvariant(emitted[i])

C2_Witness ==
    /\ Returned /\ RecordInvariant(TheRecord)
    /\ TheOutcome.type = "Split"
    /\ Len(TheLeft.sequence) > 0 /\ Len(TheRight.sequence) > 0
    /\ Len(TheLeft.sequence) = ReadLen(TheLeft.cigar)

\* A payload the record invariant permits, read strictly: a stored payload
\* of the length the operations consume, or no payload on a secondary record.
PermittedPayload(r) ==
    \/ /\ Len(r.sequence) > 0
       /\ ReadLen(r.cigar) = Len(r.sequence)
       /\ Len(r.sequence) = Len(r.quality_scores)
    \/ /\ Len(r.sequence) = 0
       /\ Len(r.quality_scores) = 0
       /\ r.secondary

\* C3 (as claimed): a mapped record with start S < reflen whose payload the
\* record invariant permits and whose last covered reference position
\* S + R - 1 is at most reflen is Unchanged, and the record written is the
\* input record.
C3_NonCrossingUnchanged ==
    (Returned /\ IsMapped /\ TheStart < reflen /\ PermittedPayload(TheRecord)
        /\ TheStart + RefLen(TheRecord.cigar) - 1 <= reflen) =>
        /\ TheOutcome.type = "Unchanged"
        /\ write_alignment_records(TheRecord, TheOutcome) = <<TheRecord>>

\* C4 (as claimed): a record with start S >= reflen yields Modified with
\* alignment start S - reflen and every other field as in the input.
C4_ShiftCorrectness ==
    (Returned /\ IsMapped /\ TheStart >= reflen) =>
        /\ TheOutcome.type = "Modified"
        /\ TheOutcome.reads[1].alignment_start = Some(TheStart - reflen)
        /\ TheOutcome.reads[1] =
               [TheRecord EXCEPT !.alignment_start = Some(TheStart - reflen)]

\* The operation lists of a Split are the input list cut inside operation k:
\* the operations before k, then two pieces of operation k's kind whose
\* lengths sum to its length (the last of left, the first of right), then
\* the operations after k.
CutInsideOperation(cigar, left, right, k) ==
    /\ Len(left) = k
    /\ Len(right) = Len(cigar) - k + 1
    /\ SubSeq(left, 1, k - 1) = SubSeq(cigar, 1, k - 1)
    /\ left[k].kind = cigar[k].kind
    /\ right[1].kind = cigar[k].kind
    /\ left[k].len + right[1].len = cigar[k].len
    /\ Tail(right) = SubSeq(cigar, k + 1, Len(cigar))

\* C5: for a Split, the sequences of left and right concatenate to the input
\* sequence, the quality scores likewise, the read-consuming lengths add up
\* to the input's, and the operation lists are the input list cut inside one
\* operation.
C5_CoverageConservation ==
    (Returned /\ TheOutcome.type = "Split") =>
        /\ TheLeft.sequence \o TheRight.sequence = TheRecord.sequence
        /\ TheLeft.quality_scores \o TheRight.quality_scores = TheRecord.quality_scores
        /\ ReadLen(TheLeft.cigar) + ReadLen(TheRight.cigar) = ReadLen(TheRecord.cigar)
        /\ \E k \in 1..Len(TheRecord.cigar) :
               CutInsideOperation(TheRecord.cigar, TheLeft.cigar, TheRight.cigar, k)

C5_Witness ==
    /\ Returned /\ TheOutcome.type = "Split"
    /\ reflen \in RefLens
    /\ Len(TheLeft.cigar) >= 2 /\ Len(TheRight.cigar) >= 2
    /\ Len(TheLeft.sequence) > 0 /\ Len(TheRight.sequence) > 0
    /\ TheLeft.cigar[Len(TheLeft.cigar)].len > 0

IsSplitTest == Returned /\ reflen = REF_LEN /\ TheRecord = test_split_record

\* C6 (as claimed): the record of test_split_read (reflen 1000, start 910)
\* is split into the first 100 and the remaining 50 bases, the right record
\* starts at 1 and its operations are [Match 10, SoftClip 10].
C6_ScenarioAsClaimed ==
    IsSplitTest =>
        /\ TheOutcome.type = "Split"
        /\ TheLeft.sequence = SubSeq(test_sequence, 1, 100)
        /\ TheRight.sequence = SubSeq(test_sequence, 101, 150)
        /\ TheRight.alignment_start = Some(1)
        /\ TheRight.cigar = <<Op("Match", 10), Op("SoftClip", 10)>>

\* C6 (amended): as claimed, but the right operations are
\* [Match 40, SoftClip 10]: the last Match 90 is cut into 50 + 40.
C6_Scenario ==
    IsSplitTest =>
        /\ TheOutcome.type = "Split"
        /\ TheLeft.sequence = SubSeq(test_sequence, 1, 100)
        /\ TheRight.sequence = SubSeq(test_sequence, 101, 150)
        /\ TheRight.alignment_start = Some(1)
        /\ TheRight.cigar = <<Op("Match", 40), Op("SoftClip", 10)>>

C6_Witness ==
    /\ IsSplitTest
    /\ TheOutcome.type = "Split"
    /\ TheRight.sequence[1] = "N"

\* C10 (as claimed): a mapped record with start S < reflen whose operations
\* stay before reflen is Unchanged whatever its payload and flags (the
\* payload check aborts only what would be split), and a secondary record
\* without sequence and quality scores whose operations run over reflen is
\* split into two records without payload whose operation lists are the
\* input list cut inside one operation.
C10_PayloadCheckOnlyOnSplit ==
    (Returned /\ IsMapped /\ TheStart < reflen) =>
        /\ (TheStart + RefLen(TheRecord.cigar) <= reflen) =>
               TheOutcome.type = "Unchanged"
        /\ (/\ TheStart + RefLen(TheRecord.cigar) > reflen
            /\ TheRecord.secondary
            /\ Len(TheRecord.sequence) = 0
            /\ Len(TheRecord.quality_scores) = 0) =>
               /\ TheOutcome.type = "Split"
               /\ TheLeft.sequence = <<>> /\ TheLeft.quality_scores = <<>>
               /\ TheRight.sequence = <<>> /\ TheRight.quality_scores = <<>>
               /\ \E k \in 1..Len(TheRecord.cigar) :
                      CutInsideOperation(TheRecord.cigar, TheLeft.cigar,
                                         TheRight.cigar, k)

HeaderRewritten == entry \in {"lib", "main"} /\ pc \in {"records", "done"}

\* C7 (as claimed, for a dictionary that holds the entry refname of the
\* doubled reference): after the header is rewritten the dictionary has an
\* entry target_refname of length reflen, has no entry refname when the two
\* names differ, and keeps every other entry with its length.
C7_HeaderAdjustment ==
    (HeaderRewritten /\ contains_key(header0, refname)) =>
        /\ contains_key(reference_sequences, target_refname)
        /\ get(reference_sequences, target_refname) = reflen
        /\ (target_refname # refname) => ~contains_key(reference_sequences, refname)
        /\ \A i \in 1..Len(header0) :
               header0[i].name \notin {refname, target_refname} =>
                   /\ contains_key(reference_sequences, header0[i].name)
                   /\ get(reference_sequences, header0[i].name) = header0[i].length

\* The records an input record is replaced by in the output.
ReplacedBy(rec, rl) ==
    LET outcome == convert_read(rec, rl) IN
    IF outcome.type = "Split" THEN <<outcome.reads[1], outcome.reads[2]>>
    ELSE IF outcome.type = "Modified" THEN <<outcome.reads[1]>>
    ELSE <<rec>>

RECURSIVE ExpectedRecords(_, _)
ExpectedRecords(records, rl) ==
    IF Len(records) = 0 THEN <<>>
    ELSE ReplacedBy(Head(records), rl) \o ExpectedRecords(Tail(records), rl)

NumSplits(records, rl) ==
    Cardinality({i \in 1..Len(records) : convert_read(records[i], rl).type = "Split"})

IsPrefix(s, t) == Len(s) <= Len(t) /\ s = SubSeq(t, 1, Len(s))

C9_CliRefLen ==
    (entry = "main" /\ pc \in {"convert_sam", "records", "done"}) =>
        reflen = get_one(Unwrap(args).reflen, DEFAULT_REFLEN)


\* C11 (as claimed): for a record with alignment start S in
\* 1..(2 * reflen - 1), every record emitted for it (the record itself for
\* Unchanged, the shifted record, both halves of a Split) has an alignment
\* start, and that start is a position in 1..reflen.
C11_StartStaysInRange ==
    (Returned /\ IsMapped /\ TheStart \in 1..(2 * reflen - 1)) =>
        LET emitted == write_alignment_records(TheRecord, TheOutcome) IN
        \A i \in 1..Len(emitted) :
            /\ IsSome(emitted[i].alignment_start)
            /\ Unwrap(emitted[i].alignment_start) \in 1..reflen

\* C12 (as claimed): for a record whose operations all have length >= 1,
\* every operation of every emitted record has length >= 1; in particular
\* both pieces of the operation cut by a Split.
C12_NoZeroLengthOperation ==
    (Returned /\ \A j \in 1..Len(TheRecord.cigar) : TheRecord.cigar[j].len >= 1) =>
        LET emitted == write_alignment_records(TheRecord, TheOutcome) IN
        \A i \in 1..Len(emitted) :
            \A j \in 1..Len(emitted[i].cigar) : emitted[i].cigar[j].len >= 1

====
